---- MODULE Spec2Model ----
(***************************************************************************)
(* Model of lexington_dev_updates.py: one execution of main(), which       *)
(* builds a LexingtonDevBot from the environment, asks the OpenAI          *)
(* Assistants API for development news, extracts a JSON array from the     *)
(* assistant's free-form answer, formats a Slack message and posts it.     *)
(*                                                                         *)
(* A text is a sequence of atoms.  The structural characters [ ] { } , :   *)
(* " and the blank are atoms of their own, so that str.find, str.rfind and *)
(* slicing act on them exactly as on characters; a run of other characters *)
(* (a word, a digit) is one atom.                                          *)
(***************************************************************************)
EXTENDS Integers, Sequences, FiniteSets, TLC

----------------------------------------------------------------------------
(* Atoms of a text.                                                        *)

LB == "["
RB == "]"
LC == "{"
RC == "}"
COMMA == ","
COLON == ":"
QUOTE == "\""
SP == " "

Digits == {"1", "2", "7"}

Literals == {"null", "true", "false"}

----------------------------------------------------------------------------
(* Parsed JSON values, as json.loads builds them.  Every value is a record *)
(* of the same shape: t is the Python type, s the characters of a str or   *)
(* the digits of an int, items the elements of a list or the values of a   *)
(* dict, keys the keys of a dict (in insertion order, parallel to items).  *)

JVal(t, s, items, keys) == [t |-> t, s |-> s, items |-> items, keys |-> keys]

JNum(d) == JVal("int", d, <<>>, <<>>)

JStr(s) == JVal("str", s, <<>>, <<>>)

JLit(w) == JVal(IF w = "null" THEN "NoneType" ELSE "bool", <<w>>, <<>>, <<>>)

JList(items) == JVal("list", <<>>, items, <<>>)

JDict(keys, items) == JVal("dict", <<>>, items, keys)

(* dict[k] = v: a key already present keeps its place and takes the new    *)
(* value; a new key goes last.                                             *)
DictSet(d, k, v) ==
    IF \E i \in 1..Len(d.keys) : d.keys[i] = k
    THEN JDict(d.keys, [i \in 1..Len(d.items) |-> IF d.keys[i] = k THEN v ELSE d.items[i]])
    ELSE JDict(Append(d.keys, k), Append(d.items, v))

(* A failed parse: json.JSONDecodeError.                                   *)
PFail(i) == [ok |-> FALSE, val |-> JLit("null"), pos |-> i]

POk(v, i) == [ok |-> TRUE, val |-> v, pos |-> i]

At(s, i) == IF i >= 1 /\ i <= Len(s) THEN s[i] ELSE "EOF"

RECURSIVE SkipWs(_, _)
SkipWs(s, i) == IF At(s, i) = SP THEN SkipWs(s, i + 1) ELSE i

(* The index of the closing quote of a string whose body starts at i, or 0 *)
RECURSIVE StringEnd(_, _)
StringEnd(s, i) ==
    IF i > Len(s) THEN 0
    ELSE IF s[i] = QUOTE THEN i
    ELSE StringEnd(s, i + 1)

RECURSIVE NumberEnd(_, _)
NumberEnd(s, i) == IF At(s, i) \in Digits THEN NumberEnd(s, i + 1) ELSE i

ParseString(s, i) ==
    LET e == StringEnd(s, i + 1)
    IN  IF e = 0 THEN PFail(i) ELSE POk(JStr(SubSeq(s, i + 1, e - 1)), e + 1)

RECURSIVE ParseValue(_, _)
RECURSIVE ParseArrayRest(_, _, _)
RECURSIVE ParseObjectRest(_, _, _)

(* After '[' and at least one element read: s[i] is the start of the next  *)
(* element.                                                                *)
ParseArrayRest(s, i, acc) ==
    LET r == ParseValue(s, i)
        j == SkipWs(s, r.pos)
    IN  IF ~r.ok THEN PFail(i)
        ELSE IF At(s, j) = RB THEN POk(JList(Append(acc, r.val)), j + 1)
        ELSE IF At(s, j) = COMMA THEN ParseArrayRest(s, SkipWs(s, j + 1), Append(acc, r.val))
        ELSE PFail(j)

(* s[i] is the opening quote of the next key.                              *)
ParseObjectRest(s, i, acc) ==
    LET k == ParseString(s, i)
        c == SkipWs(s, k.pos)
        r == ParseValue(s, SkipWs(s, c + 1))
        j == SkipWs(s, r.pos)
        d == DictSet(acc, k.val.s, r.val)
    IN  IF At(s, i) # QUOTE \/ ~k.ok THEN PFail(i)
        ELSE IF At(s, c) # COLON THEN PFail(c)
        ELSE IF ~r.ok THEN PFail(c)
        ELSE IF At(s, j) = RC THEN POk(d, j + 1)
        ELSE IF At(s, j) = COMMA THEN ParseObjectRest(s, SkipWs(s, j + 1), d)
        ELSE PFail(j)

ParseValue(s, i) ==
    LET c == At(s, i)
    IN  IF c = QUOTE THEN ParseString(s, i)
        ELSE IF c = LC THEN
            (IF At(s, SkipWs(s, i + 1)) = RC
             THEN POk(JDict(<<>>, <<>>), SkipWs(s, i + 1) + 1)
             ELSE ParseObjectRest(s, SkipWs(s, i + 1), JDict(<<>>, <<>>)))
        ELSE IF c = LB THEN
            (IF At(s, SkipWs(s, i + 1)) = RB
             THEN POk(JList(<<>>), SkipWs(s, i + 1) + 1)
             ELSE ParseArrayRest(s, SkipWs(s, i + 1), <<>>))
        ELSE IF c \in Literals THEN POk(JLit(c), i + 1)
        ELSE IF c \in Digits THEN POk(JNum(SubSeq(s, i, NumberEnd(s, i) - 1)), NumberEnd(s, i))
        ELSE PFail(i)

(* json.loads(s): one value between optional blanks, nothing after it.     *)
JsonLoads(s) ==
    LET r == ParseValue(s, SkipWs(s, 1))
    IN  IF r.ok /\ SkipWs(s, r.pos) = Len(s) + 1
        THEN [ok |-> TRUE, val |-> r.val]
        ELSE [ok |-> FALSE, val |-> JLit("null")]

----------------------------------------------------------------------------
(* call_openai_agent: extraction of the record list from the response text *)

(* What call_openai_agent returns: None, or a list.                        *)
PyNone == [none |-> TRUE, items |-> <<>>]

PyList(items) == [none |-> FALSE, items |-> items]

(* str.find: the 0-based index of the first c, or -1.                      *)
RECURSIVE FindFrom(_, _, _)
FindFrom(s, c, i) ==
    IF i > Len(s) THEN -1
    ELSE IF s[i] = c THEN i - 1
    ELSE FindFrom(s, c, i + 1)

Find(s, c) == FindFrom(s, c, 1)

(* str.rfind: the 0-based index of the last c, or -1.                      *)
RECURSIVE RFindFrom(_, _, _)
RFindFrom(s, c, i) ==
    IF i < 1 THEN -1
    ELSE IF s[i] = c THEN i - 1
    ELSE RFindFrom(s, c, i - 1)

RFind(s, c) == RFindFrom(s, c, Len(s))

(* s[a:b] for 0 <= a and 0 <= b <= len(s): empty when b <= a.              *)
Slice(s, a, b) == SubSeq(s, a + 1, b)

start_idx(content) == Find(content, LB)

(* Mutant: the + 1 forgotten, so that the slice loses its closing bracket. *)
end_idx_exclusive(content) == RFind(content, RB)

end_idx(content) == RFind(content, RB) + 1

HasBracketSlice(content) == start_idx(content) # -1 /\ end_idx(content) # 0

json_str(content) == Slice(content, start_idx(content), end_idx(content))

(* for key, value in parsed_content.items(): if isinstance(value, list)    *)
RECURSIVE FirstListValue(_, _)
FirstListValue(d, i) ==
    IF i > Len(d.items) THEN PyList(<<>>)
    ELSE IF d.items[i].t = "list" THEN PyList(d.items[i].items)
    ELSE FirstListValue(d, i + 1)

(* Mutant: a decode error treated as a failed call.                        *)
OnDecodeError_none == PyNone

(* except json.JSONDecodeError: return []                                  *)
OnDecodeError == PyList(<<>>)

(* The entire response parsed as JSON.                                     *)
ParseEntire(content) ==
    LET parsed_content == JsonLoads(content)
    IN  IF ~parsed_content.ok THEN OnDecodeError
        ELSE IF parsed_content.val.t = "list" THEN PyList(parsed_content.val.items)
        ELSE IF parsed_content.val.t = "dict" THEN FirstListValue(parsed_content.val, 1)
        ELSE PyList(<<>>)

(* The try block run on the first assistant message's text.                *)
ExtractJson(content) ==
    LET results == JsonLoads(json_str(content))
    IN  IF HasBracketSlice(content)
        THEN IF ~results.ok THEN OnDecodeError
             ELSE IF results.val.t = "list" THEN PyList(results.val.items)
             ELSE ParseEntire(content)
        ELSE ParseEntire(content)

----------------------------------------------------------------------------
(* format_slack_message                                                    *)

NO_UPDATES == ":no_entry_sign: No significant new development updates in Lexington in the past 14 days."

HEADER == ":construction: *Lexington Development Updates*\n\n"

(* The literal pieces of the bullet's f-string; \u2022 is the bullet and    *)
(* \u2014 the em dash of the source.                                       *)
BULLET_OPEN == "\\u2022 *"

TITLE_CLOSE == "* \\u2014 "

LINK_OPEN == "  <"

LINK_CLOSE == "|Read more>\n"

RECURSIVE Join(_, _)
Join(parts, sep) ==
    IF Len(parts) = 0 THEN <<>>
    ELSE IF Len(parts) = 1 THEN parts[1]
    ELSE parts[1] \o sep \o Join(Tail(parts), sep)

(* repr(v) and str(v), as an f-string renders a value.                     *)
RECURSIVE PyRepr(_)
PyRepr(v) ==
    IF v.t = "str" THEN <<"'">> \o v.s \o <<"'">>
    ELSE IF v.t = "int" THEN v.s
    ELSE IF v.t = "NoneType" THEN <<"None">>
    ELSE IF v.t = "bool" THEN (IF v.s = <<"true">> THEN <<"True">> ELSE <<"False">>)
    ELSE IF v.t = "list"
        THEN <<LB>> \o Join([i \in 1..Len(v.items) |-> PyRepr(v.items[i])], <<COMMA, SP>>) \o <<RB>>
    ELSE <<LC>> \o Join([i \in 1..Len(v.items) |->
                           <<"'">> \o v.keys[i] \o <<"'", COLON, SP>> \o PyRepr(v.items[i])],
                        <<COMMA, SP>>) \o <<RC>>

PyStr(v) == IF v.t = "str" THEN v.s ELSE PyRepr(v)

(* A key is the sequence of its characters.                                *)
HasKey(item, key) == \E i \in 1..Len(item.keys) : item.keys[i] = <<key>>

(* item.get(key, default), rendered; item is a dict.                       *)
ItemGet(item, key, default) ==
    IF HasKey(item, key)
    THEN PyStr(item.items[CHOOSE i \in 1..Len(item.keys) : item.keys[i] = <<key>>])
    ELSE <<default>>

(* Mutant: the link segment left out when the record has no url.          *)
BulletLine_optional_link(item) ==
    <<BULLET_OPEN>> \o ItemGet(item, "title", "No title") \o <<TITLE_CLOSE>>
        \o ItemGet(item, "summary", "No summary")
        \o (IF HasKey(item, "url")
            THEN <<LINK_OPEN>> \o ItemGet(item, "url", "#") \o <<LINK_CLOSE>>
            ELSE <<"\n">>)

(* One pass of the loop body on a dict.                                    *)
BulletLine(item) ==
    LET title == ItemGet(item, "title", "No title")
        summary == ItemGet(item, "summary", "No summary")
        url == ItemGet(item, "url", "#")
    IN  <<BULLET_OPEN>> \o title \o <<TITLE_CLOSE>> \o summary
            \o <<LINK_OPEN>> \o url \o <<LINK_CLOSE>>

RECURSIVE Bullets(_)
RECURSIVE Bullets_reversed(_)

(* Mutant: each line put before the lines already built.                   *)
Bullets_reversed(items) ==
    IF Len(items) = 0 THEN <<>>
    ELSE Bullets_reversed(Tail(items)) \o BulletLine(Head(items))

(* message += ... for item in results                                      *)
Bullets(items) ==
    IF Len(items) = 0 THEN <<>>
    ELSE BulletLine(Head(items)) \o Bullets(Tail(items))

(* `if not results`: None and the empty list are falsy.                    *)
Falsy(results) == results.none \/ Len(results.items) = 0

(* An element without a get method (not a dict) raises AttributeError.     *)
FormatRaises(results) ==
    ~Falsy(results) /\ \E i \in 1..Len(results.items) : results.items[i].t # "dict"

FormatSlackMessage(results) ==
    IF Falsy(results) THEN <<NO_UPDATES>>
    ELSE <<HEADER>> \o Bullets(results.items)

----------------------------------------------------------------------------
(* The response texts the provider may return.                             *)

MaxItems == 2

Str(w) == JStr(<<w>>)

Rec(keys, vals) == JDict([i \in 1..Len(keys) |-> <<keys[i]>>], [i \in 1..Len(vals) |-> JStr(vals[i])])

Url(path) == <<"http", COLON, path>>

Elements ==
    { Rec(<<"title", "summary", "url">>, <<<<"Rezoning">>, <<"Approved">>, Url("//x")>>),
      Rec(<<"title", "summary">>, <<<<"Hotel">>, <<"Planned">>>>),
      Rec(<<"summary", "url">>, <<<<"Funded">>, Url("//y")>>),
      Rec(<<"title">>, <<<<"Plan", SP, LB, "B", RB>>>>),
      Rec(<<>>, <<>>),
      JNum(<<"7">>),
      Str("story") }

ElementLists == UNION { [1..n -> Elements] : n \in 0..MaxItems }

(* The JSON text of a value, written compactly.                            *)
RECURSIVE Render(_)
Render(v) ==
    IF v.t = "str" THEN <<QUOTE>> \o v.s \o <<QUOTE>>
    ELSE IF v.t = "list"
        THEN <<LB>> \o Join([i \in 1..Len(v.items) |-> Render(v.items[i])], <<COMMA>>) \o <<RB>>
    ELSE IF v.t = "dict"
        THEN <<LC>> \o Join([i \in 1..Len(v.items) |->
                               <<QUOTE>> \o v.keys[i] \o <<QUOTE, COLON>> \o Render(v.items[i])],
                            <<COMMA>>) \o <<RC>>
    ELSE v.s

Key(w) == <<QUOTE, w, QUOTE, COLON>>

(* The ways a provider wraps the array L it was asked for.                 *)
Wrappings(L) ==
    { L,
      <<"Here", SP, "you", SP, "go", COLON, SP>> \o L \o <<SP, "thanks">>,
      <<SP>> \o L \o <<SP>>,
      <<"see", SP, LB, "1", RB, COLON, SP>> \o L,
      L \o <<SP, "(", "sources", SP, "1", RB>>,
      SubSeq(L, 1, Len(L) - 1),
      <<LC>> \o Key("items") \o L \o <<RC>>,
      <<LC>> \o Key("count") \o <<"1", COMMA>> \o Key("items") \o L \o <<RC>>,
      <<LC>> \o Key("note") \o <<QUOTE, LB, "draft", QUOTE, COMMA>> \o Key("items") \o L \o <<RC>>,
      <<LC>> \o Key("items") \o L \o <<COMMA>> \o Key("note") \o <<QUOTE, "draft", RB, QUOTE, RC>>,
      <<LC>> \o Key("results") \o L \o <<COMMA>> \o Key("sources") \o <<LB, QUOTE, "wkyt", QUOTE, RB, RC>> }

OtherTexts ==
    { <<>>,
      <<"No", SP, "updates", SP, "found">>,
      <<LC>> \o Key("count") \o <<"1", RC>>,
      <<LC, RC>>,
      <<"1", "2">>,
      <<"null">>,
      <<QUOTE, "none", QUOTE>>,
      <<RB, SP, LB>>,
      <<LB>>,
      <<RB>> }

Texts == UNION { Wrappings(Render(JList(l))) : l \in ElementLists } \cup OtherTexts

(* messages.data: the thread's messages, each a role and a text.           *)
Msg(role, text) == [role |-> role, text |-> text]

UserMsg == Msg("user", <<"prompt">>)

MessageLists ==
    { <<UserMsg>> }
      \cup { <<Msg("assistant", t), UserMsg>> : t \in Texts }
      \cup { <<UserMsg, Msg("assistant", t)>> : t \in Texts }

----------------------------------------------------------------------------
(* One execution of main().                                                *)

VARIABLES
    env,                \* os.getenv of the three required variables
    pc,                 \* the statement main() has reached
    provider_contacted, \* a request went to the OpenAI API
    run_status,         \* run_status.status of the last runs.retrieve
    provider_raised,    \* the outer except of call_openai_agent ran
    content,            \* the first assistant message's text
    results,            \* what call_openai_agent returned
    message,            \* what format_slack_message returned
    posts,              \* requests.post calls made
    post_reply,         \* how the post ended
    run_ret,            \* what run() returned
    escaped,            \* the exception that left run()
    main_ret,           \* what main() returned
    stdout              \* the lines printed

vars == <<env, pc, provider_contacted, run_status, provider_raised, content, results,
          message, posts, post_reply, run_ret, escaped, main_ret, stdout>>

RequiredVars == {"OPENAI_API_KEY", "SLACK_BOT_TOKEN", "SLACK_CHANNEL_ID"}

(* os.getenv gives None for a variable that is not set.                    *)
Unset == "<None>"

EnvValues == {Unset, "", "secret"}

Truthy(v) == v # Unset /\ v # ""

(* Mutant: only a variable that is not set counts as missing.              *)
AllConfigured_not_none(e) == \A k \in RequiredVars : e[k] # Unset

(* all([self.openai_api_key, self.slack_bot_token, self.slack_channel_id]) *)
AllConfigured(e) == \A k \in RequiredVars : Truthy(e[k])

(* The status values of an Assistants API run.                             *)
RunStatuses == {"queued", "in_progress", "requires_action", "cancelling",
                "completed", "failed", "cancelled", "expired", "incomplete"}

FailedStatuses == {"failed", "cancelled", "expired"}

(* The requests made before the polling loop, in order.                    *)
SetupNext ==
    [threads_create |-> "messages_create",
     messages_create |-> "assistants_create",
     assistants_create |-> "runs_create",
     runs_create |-> "runs_retrieve"]

SetupPcs == DOMAIN SetupNext

ProviderPcs == SetupPcs \cup {"runs_retrieve", "messages_list"}

(* How requests.post, raise_for_status and result.get('ok') may end.       *)
PostReplies == {"ok", "not_ok", "http_error", "timeout", "connection_error"}

Unreturned == "<unreturned>"

Init ==
    /\ env \in [RequiredVars -> EnvValues]
    /\ pc = "main"
    /\ provider_contacted = FALSE
    /\ run_status = "none"
    /\ provider_raised = FALSE
    /\ content = <<>>
    /\ results = PyNone
    /\ message = <<>>
    /\ posts = 0
    /\ post_reply = "none"
    /\ run_ret = Unreturned
    /\ escaped = "none"
    /\ main_ret = Unreturned
    /\ stdout = <<>>

(* main's except clause: the exception is printed and main returns False.  *)
MainCatches(exc_name) ==
    /\ stdout' = Append(stdout, "Error initializing bot")
    /\ escaped' = exc_name
    /\ main_ret' = "False"
    /\ pc' = "done"

(* LexingtonDevBot(), and run() up to its first request.                   *)
Construct ==
    /\ pc = "main"
    /\ IF AllConfigured(env)
       THEN /\ pc' = "threads_create"
            /\ stdout' = stdout \o <<"Starting Lexington Development Updates Bot...",
                                     "Searching for Lexington development news using OpenAI Agents API...">>
            /\ UNCHANGED <<escaped, main_ret>>
       ELSE MainCatches("ValueError")
    /\ UNCHANGED <<env, provider_contacted, run_status, provider_raised, content, results,
                   message, posts, post_reply, run_ret>>

(* Mutant: the None check dropped, so that run() goes on to format.        *)
IsNone_never(res) == FALSE

(* `if results is None` in run().                                          *)
IsNone(res) == res.none

(* call_openai_agent returns res to run(), which aborts on None.           *)
AgentReturns(res, printed) ==
    /\ results' = res
    /\ IF IsNone(res)
       THEN /\ stdout' = stdout \o printed \o <<"Failed to get results from OpenAI Agents API">>
            /\ run_ret' = "False"
            /\ main_ret' = "None"
            /\ pc' = "done"
       ELSE /\ stdout' = stdout \o printed
            /\ pc' = "format"
            /\ UNCHANGED <<run_ret, main_ret>>

(* threads.create, messages.create, assistants.create, runs.create         *)
ProviderRequest ==
    /\ pc \in SetupPcs
    /\ pc' = SetupNext[pc]
    /\ provider_contacted' = TRUE
    /\ UNCHANGED <<env, run_status, provider_raised, content, results, message, posts,
                   post_reply, run_ret, escaped, main_ret, stdout>>

(* Any provider request raising: except Exception: return None             *)
ProviderRaises ==
    /\ pc \in ProviderPcs
    /\ provider_contacted' = TRUE
    /\ provider_raised' = TRUE
    /\ AgentReturns(PyNone, <<"Error calling OpenAI Agents API">>)
    /\ UNCHANGED <<env, run_status, content, message, posts, post_reply, escaped>>

(* One pass of the while True loop up to its sleep.                        *)
RetrieveRun ==
    /\ pc = "runs_retrieve"
    /\ provider_contacted' = TRUE
    /\ \E st \in RunStatuses :
        /\ run_status' = st
        /\ IF st = "completed"
           THEN /\ pc' = "messages_list"
                /\ UNCHANGED <<results, run_ret, main_ret, stdout>>
           ELSE IF st \in FailedStatuses
           THEN AgentReturns(PyNone, <<"Run failed with status">>)
           ELSE /\ pc' = "sleep"
                /\ UNCHANGED <<results, run_ret, main_ret, stdout>>
    /\ UNCHANGED <<env, provider_raised, content, message, posts, post_reply, escaped>>

(* time.sleep(2), then the loop again.                                     *)
Sleep ==
    /\ pc = "sleep"
    /\ pc' = "runs_retrieve"
    /\ UNCHANGED <<env, provider_contacted, run_status, provider_raised, content, results,
                   message, posts, post_reply, run_ret, escaped, main_ret, stdout>>

(* The index of the first message with role assistant, or 0.               *)
RECURSIVE FirstAssistant(_, _)
FirstAssistant(data, i) ==
    IF i > Len(data) THEN 0
    ELSE IF data[i].role = "assistant" THEN i
    ELSE FirstAssistant(data, i + 1)

(* messages.list and the loop over messages.data.                          *)
ListMessages ==
    /\ pc = "messages_list"
    /\ provider_contacted' = TRUE
    /\ \E data \in MessageLists :
        LET i == FirstAssistant(data, 1)
        IN  IF i = 0
            THEN /\ content' = <<>>
                 /\ AgentReturns(PyList(<<>>), <<"No assistant response found">>)
            ELSE /\ content' = data[i].text
                 /\ AgentReturns(ExtractJson(data[i].text), <<>>)
    /\ UNCHANGED <<env, run_status, provider_raised, message, posts, post_reply, escaped>>

(* message = self.format_slack_message(results)                            *)
Format ==
    /\ pc = "format"
    /\ IF FormatRaises(results)
       THEN /\ MainCatches("AttributeError")
            /\ UNCHANGED message
       ELSE /\ message' = FormatSlackMessage(results)
            /\ stdout' = stdout \o <<"Found development updates", "Posting to Slack...">>
            /\ pc' = "post"
            /\ UNCHANGED <<escaped, main_ret>>
    /\ UNCHANGED <<env, provider_contacted, run_status, provider_raised, content, results,
                   posts, post_reply, run_ret>>

(* success = self.post_to_slack(message); return success                   *)
Post ==
    /\ pc = "post"
    /\ posts' = posts + 1
    /\ \E reply \in PostReplies :
        /\ post_reply' = reply
        /\ run_ret' = IF reply = "ok" THEN "True" ELSE "False"
        /\ stdout' = stdout \o (IF reply = "ok"
                                THEN <<"Message posted to Slack successfully!",
                                       "Bot execution completed successfully!">>
                                ELSE <<"Error posting to Slack", "Bot execution failed!">>)
    /\ main_ret' = "None"
    /\ pc' = "done"
    /\ UNCHANGED <<env, provider_contacted, run_status, provider_raised, content, results,
                   message, escaped>>

Next ==
    \/ Construct
    \/ ProviderRequest
    \/ ProviderRaises
    \/ RetrieveRun
    \/ Sleep
    \/ ListMessages
    \/ Format
    \/ Post

Spec == Init /\ [][Next]_vars

(* The interpreter runs main() to its end: a statement that can run, does. *)
FairSpec == Spec /\ WF_vars(Next)

----------------------------------------------------------------------------
(* Vocabulary of the properties, stated without the operators of the code. *)

(* A required variable is absent or empty.                                 *)
MissingConfig == \E k \in RequiredVars : env[k] \in {Unset, ""}

(* The provider stage failed: an exception, or a failed run status.        *)
ProviderFailed == provider_raised \/ run_status \in FailedStatuses

(* The provider calls all completed and call_openai_agent has returned.    *)
ProviderCompleted ==
    /\ run_status = "completed"
    /\ ~provider_raised
    /\ pc \in {"format", "post", "done"}

(* The substring from the first '[' to the last ']' inclusive, if any.     *)
HasBrackets(c) == (\E i \in 1..Len(c) : c[i] = LB) /\ (\E i \in 1..Len(c) : c[i] = RB)

FirstLB(c) == CHOOSE i \in 1..Len(c) : c[i] = LB /\ \A j \in 1..(i - 1) : c[j] # LB

LastRB(c) == CHOOSE i \in 1..Len(c) : c[i] = RB /\ \A j \in (i + 1)..Len(c) : c[j] # RB

BracketText(c) == SubSeq(c, FirstLB(c), LastRB(c))

(* The first strategy yields an array.                                     *)
SliceIsArray(c) ==
    /\ HasBrackets(c)
    /\ JsonLoads(BracketText(c)).ok
    /\ JsonLoads(BracketText(c)).val.t = "list"

ListKeys(v) == {i \in 1..Len(v.items) : v.items[i].t = "list"}

(* The second strategy yields an array.                                    *)
WholeIsArray(c) ==
    /\ JsonLoads(c).ok
    /\ \/ JsonLoads(c).val.t = "list"
       \/ JsonLoads(c).val.t = "dict" /\ ListKeys(JsonLoads(c).val) # {}

IsPrefix(a, b) == Len(a) <= Len(b) /\ SubSeq(b, 1, Len(a)) = a

IsSuffix(a, b) == Len(a) <= Len(b) /\ SubSeq(b, Len(b) - Len(a) + 1, Len(b)) = a

(* The JSON text of each array of elements.                                *)
Written == {[elements |-> l, text |-> Render(JList(l))] : l \in ElementLists}

(* A text without the bracket-free prose or the blanks put around it.      *)
Unwrapped(c) ==
    IF IsPrefix(<<"Here", SP, "you", SP, "go", COLON, SP>>, c) /\ IsSuffix(<<SP, "thanks">>, c)
    THEN SubSeq(c, 8, Len(c) - 2)
    ELSE IF IsPrefix(<<SP>>, c) /\ IsSuffix(<<SP>>, c) /\ Len(c) >= 2
    THEN SubSeq(c, 2, Len(c) - 1)
    ELSE c

(* A text that is a JSON object.                                           *)
IsObject(c) == JsonLoads(c).ok /\ JsonLoads(c).val.t = "dict"

Min(S) == CHOOSE i \in S : \A j \in S : i <= j

(* The lines of a message: each starts at a bullet.                        *)
BulletStarts(m) == {i \in 1..Len(m) : m[i] = BULLET_OPEN}

NthStart(m, k) == CHOOSE i \in BulletStarts(m) : Cardinality({j \in BulletStarts(m) : j < i}) = k - 1

LineOf(m, k) ==
    SubSeq(m, NthStart(m, k),
           IF k = Cardinality(BulletStarts(m)) THEN Len(m) ELSE NthStart(m, k + 1) - 1)

(* What a record's field is rendered as.                                   *)
FieldText(item, key, default) ==
    IF \E j \in 1..Len(item.keys) : item.keys[j] = <<key>>
    THEN PyStr(item.items[CHOOSE j \in 1..Len(item.keys) : item.keys[j] = <<key>>])
    ELSE <<default>>

LacksKey(item, key) == \A j \in 1..Len(item.keys) : item.keys[j] # <<key>>

(* A non-empty sequence of records has been formatted.                     *)
RecordsFormatted ==
    /\ pc \in {"post", "done"}
    /\ ProviderCompleted
    /\ Len(results.items) > 0
    /\ \A i \in 1..Len(results.items) : results.items[i].t = "dict"

----------------------------------------------------------------------------
(* C1: if any of OPENAI_API_KEY, SLACK_BOT_TOKEN, SLACK_CHANNEL_ID is      *)
(* absent or empty, construction fails with a reported error (main prints  *)
(* it and returns False) and no provider request and no posting request is *)
(* ever issued.                                                            *)
C1_MissingConfigContactsNothing ==
    MissingConfig =>
        /\ ~provider_contacted
        /\ posts = 0
        /\ pc \in {"main", "done"}
        /\ pc = "done" =>
            /\ escaped = "ValueError"
            /\ stdout = <<"Error initializing bot">>
            /\ main_ret = "False"
            /\ run_ret = Unreturned

C1_Witness ==
    /\ pc = "done"
    /\ env["SLACK_CHANNEL_ID"] = ""
    /\ env["OPENAI_API_KEY"] = "secret"
    /\ env["SLACK_BOT_TOKEN"] = "secret"
    /\ main_ret = "False"

(* C2: whenever the provider stage fails (an exception in a provider call, *)
(* or a run status of failed, cancelled or expired), call_openai_agent     *)
(* returns None and run() returns False without posting: no message is     *)
(* formatted or sent in that run.                                          *)
C2_ProviderFailureSendsNothing ==
    ProviderFailed =>
        /\ results = PyNone
        /\ pc = "done"
        /\ run_ret = "False"
        /\ posts = 0
        /\ post_reply = "none"
        /\ message = <<>>

C2_Witness ==
    /\ provider_raised
    /\ run_status = "in_progress"
    /\ pc = "done"
    /\ run_ret = "False"

(* C3: when the provider call completes and the response text yields a     *)
(* JSON array by neither strategy, the extraction returns the empty list   *)
(* without raising, the run goes on, and the message formatted and posted  *)
(* is exactly the no-updates sentence.                                     *)
C3_ParseDegradesToNoUpdates ==
    (ProviderCompleted /\ ~SliceIsArray(content) /\ ~WholeIsArray(content)) =>
        /\ results = PyList(<<>>)
        /\ escaped = "none"
        /\ pc \in {"post", "done"} => message = <<NO_UPDATES>>
        /\ pc = "done" => posts = 1

C3_Witness ==
    /\ pc = "done"
    /\ posts = 1
    /\ message = <<NO_UPDATES>>
    /\ HasBrackets(content)
    /\ ~JsonLoads(BracketText(content)).ok
    /\ ~JsonLoads(content).ok

(* C4: for every response text whose substring from the first '[' to the   *)
(* last ']' is a valid JSON array, the extraction returns exactly that     *)
(* array's parsed elements in order, whatever prose surrounds it; so an    *)
(* array written out with bracket-free prose around it is read back as it  *)
(* was.                                                                    *)
C4_BracketSliceIsReturned ==
    ProviderCompleted =>
        /\ SliceIsArray(content) => results = PyList(JsonLoads(BracketText(content)).val.items)
        /\ \A w \in Written :
            Unwrapped(content) = w.text => results = PyList(w.elements)

C4_Witness ==
    /\ ProviderCompleted
    /\ SliceIsArray(content)
    /\ content[1] = "Here"
    /\ Len(results.items) = MaxItems
    /\ results.items[1] # results.items[2]

(* C5: for every response text that is itself a JSON object with exactly   *)
(* one list-valued key, whatever non-list values its other keys have       *)
(* (strings containing '[' or ']' included), the extraction returns that   *)
(* key's list.                                                             *)
C5_SingleListKeyIsReturned ==
    (ProviderCompleted /\ IsObject(content) /\ Cardinality(ListKeys(JsonLoads(content).val)) = 1) =>
        results = PyList(JsonLoads(content).val.items[Min(ListKeys(JsonLoads(content).val))].items)

(* C6: whenever the bracket slice is absent or fails to parse, the         *)
(* extraction falls back to the entire text: a JSON list is returned as it *)
(* is, and of a JSON object the first list value in key order is returned. *)
C6_FallbackParsesEntireText ==
    (ProviderCompleted /\ ~SliceIsArray(content) /\ JsonLoads(content).ok) =>
        /\ JsonLoads(content).val.t = "list" => results = PyList(JsonLoads(content).val.items)
        /\ (IsObject(content) /\ ListKeys(JsonLoads(content).val) # {}) =>
               results = PyList(JsonLoads(content).val.items[Min(ListKeys(JsonLoads(content).val))].items)

(* C7, as claimed: for every record without a 'url' key the bullet line    *)
(* holds the title and the summary but no link segment at all.             *)
C7_NoUrlNoLink ==
    RecordsFormatted =>
        \A i \in 1..Len(results.items) :
            LacksKey(results.items[i], "url") =>
                /\ IsPrefix(<<BULLET_OPEN>> \o FieldText(results.items[i], "title", "No title")
                                \o <<TITLE_CLOSE>> \o FieldText(results.items[i], "summary", "No summary"),
                            LineOf(message, i))
                /\ \A j \in 1..Len(LineOf(message, i)) :
                       LineOf(message, i)[j] \notin {LINK_OPEN, LINK_CLOSE}

(* C7, amended: every record's bullet line holds the title and the summary *)
(* and ends with a link segment <target|Read more>; the target is the      *)
(* record's url, and the placeholder # for a record without a 'url' key.   *)
C7_LinkAlwaysRendered ==
    RecordsFormatted =>
        /\ Cardinality(BulletStarts(message)) = Len(results.items)
        /\ \A i \in 1..Len(results.items) :
            /\ IsPrefix(<<BULLET_OPEN>> \o FieldText(results.items[i], "title", "No title")
                            \o <<TITLE_CLOSE>> \o FieldText(results.items[i], "summary", "No summary"),
                        LineOf(message, i))
            /\ IsSuffix(<<LINK_OPEN>> \o FieldText(results.items[i], "url", "#") \o <<LINK_CLOSE>>,
                        LineOf(message, i))
            /\ LacksKey(results.items[i], "url") =>
                   IsSuffix(<<LINK_OPEN, "#", LINK_CLOSE>>, LineOf(message, i))

C7_Witness ==
    /\ RecordsFormatted
    /\ posts = 1
    /\ Len(results.items) = MaxItems
    /\ LacksKey(results.items[1], "url")
    /\ ~LacksKey(results.items[2], "url")

(* C9: for every non-empty sequence of records the message is the header   *)
(* followed by exactly one bullet per record, in the order of the sequence *)
(* the extraction returned, with No title / No summary for a record        *)
(* lacking the key.                                                        *)
C9_OneBulletPerRecordInOrder ==
    RecordsFormatted =>
        /\ message[1] = HEADER
        /\ BulletStarts(message) # {} /\ Min(BulletStarts(message)) = 2
        /\ Cardinality(BulletStarts(message)) = Len(results.items)
        /\ \A i \in 1..Len(results.items) :
            /\ IsPrefix(<<BULLET_OPEN>> \o FieldText(results.items[i], "title", "No title")
                            \o <<TITLE_CLOSE>> \o FieldText(results.items[i], "summary", "No summary")
                            \o <<LINK_OPEN>>,
                        LineOf(message, i))
            /\ LacksKey(results.items[i], "title") =>
                   IsPrefix(<<BULLET_OPEN, "No title", TITLE_CLOSE>>, LineOf(message, i))
            /\ LacksKey(results.items[i], "summary") =>
                   \E j \in 1..(Len(LineOf(message, i)) - 2) :
                       SubSeq(LineOf(message, i), j, j + 2) = <<TITLE_CLOSE, "No summary", LINK_OPEN>>
            /\ LineOf(message, i)[Len(LineOf(message, i))] = LINK_CLOSE

C9_Witness ==
    /\ RecordsFormatted
    /\ pc = "post"
    /\ Len(results.items) = MaxItems
    /\ LacksKey(results.items[1], "title")
    /\ ~LacksKey(results.items[2], "title")
    /\ LacksKey(results.items[2], "summary")

(* C8: every run terminates: main() eventually returns, also when the      *)
(* provider keeps reporting a run status other than completed, failed,     *)
(* cancelled or expired.                                                   *)
C8_EveryRunTerminates == <>(pc = "done")

(* C10: the posting request is made at most once in a run, and exactly     *)
(* once whenever the provider stage returned a sequence, whatever JSON     *)
(* values its elements are; run() then returns whether that post was       *)
(* acknowledged ok, and no exception leaves run().                         *)
C10_PostsExactlyOnce ==
    /\ posts <= 1
    /\ (pc = "done" /\ ProviderCompleted) =>
        /\ posts = 1
        /\ escaped = "none"
        /\ run_ret = (IF post_reply = "ok" THEN "True" ELSE "False")

====
